---- MODULE Spec2Model ----
(***************************************************************************)
(* Model of the ImageUpload widget and its ImageCropDialog                 *)
(* (src/src/components/image-form/image-crop-dialog.tsx).                  *)
(*                                                                         *)
(* The widget is a controlled component: the caller owns `images` and      *)
(* passes it in on every render together with onChange; the demo page      *)
(* (src/unnamed/part_000) wires onChange={setImages}, so the list the      *)
(* next render sees is the list last handed to onChange.  Every handler    *)
(* closes over the `images` of the render it was created in; a handler     *)
(* that awaits keeps using that snapshot after the await.                  *)
(*                                                                         *)
(* Indices are 0-based as in the source; At(s, i) reads s[i] of the code.  *)
(***************************************************************************)
EXTENDS Integers, Sequences, FiniteSets, TLC

\* ------------------------------------------------------------------ bounds
\* the maxImages prop (default 10 in the source) of the runs with cropping
\* enabled and of the runs with enableCrop = false
MaxImagesCrop == 2
MaxImagesNoCrop == 3
\* files of one selection / drop
MaxBatch == 2
\* calls of generateId in one behaviour, with and without cropping
MaxGeneratedCrop == 2
MaxGeneratedNoCrop == 3
\* records of the caller-supplied initial list
MaxInitial == 3
\* crop saves (handleSave past its guard) in one behaviour
MaxCrops == 1
\* crop operations in flight at once
MaxCropOps == 1
\* crop dialog sessions (openings) in one behaviour
MaxOpens == 1
\* the same three bounds and the length of the list in the runs of the crop
\* dialog on its own
MaxDialogCrops == 2
MaxDialogCropOps == 2
MaxDialogOpens == 2
MaxDialogImages == 1

\* ------------------------------------------------------- program constants
DEFAULT_ALLOWED_TYPES ==
    {"image/jpeg", "image/jpg", "image/png", "image/webp", "image/gif"}
DEFAULT_MAX_FILE_SIZE == 5 * 1024 * 1024

allowedTypes == DEFAULT_ALLOWED_TYPES
maxFileSize == DEFAULT_MAX_FILE_SIZE

\* `null` of draggedIndex / dragOverIndex
NULL == -1

\* ------------------------------------------------------------------- values
\* File objects the user can select: name, declared type, byte size.
NoFile == [name |-> 0, type |-> "", size |-> 0]
Files ==
    { [name |-> 1, type |-> "image/png",  size |-> 1024],
      [name |-> 2, type |-> "image/jpeg", size |-> DEFAULT_MAX_FILE_SIZE],
      [name |-> 3, type |-> "text/plain", size |-> DEFAULT_MAX_FILE_SIZE + 1],
      [name |-> 4, type |-> "image/png",  size |-> DEFAULT_MAX_FILE_SIZE + 1] }

\* What a slot of the array holds when the code stores `undefined` in it.
Undefined == [id |-> 0, url |-> <<"undefined", 0>>, file |-> NoFile]

\* An ImageItem {id, url, file?}
ImageItem(id, url, file) == [id |-> id, url |-> url, file |-> file]

\* A record of the caller-supplied initial list: a remote image, no file.
InitialItem(n) == ImageItem(n, <<"remote", n>>, NoFile)

\* --------------------------------------------------------- array primitives
At(s, i) == s[i + 1]
Indices(s) == 0 .. (Len(s) - 1)
Min(a, b) == IF a < b THEN a ELSE b

\* Array.prototype.filter((_, i) => i !== index)
RECURSIVE FilterNotIndex(_, _, _)
FilterNotIndex(s, index, i) ==
    IF i >= Len(s) THEN <<>>
    ELSE (IF i # index THEN <<At(s, i)>> ELSE <<>>)
         \o FilterNotIndex(s, index, i + 1)

\* Array.prototype.splice(start, deleteCount), start >= 0: the removed items
SpliceRemoved(s, start, deleteCount) ==
    LET st == Min(start, Len(s))
        dc == Min(deleteCount, Len(s) - st)
    IN  SubSeq(s, st + 1, st + dc)

\* Array.prototype.splice(start, deleteCount), start >= 0: the array afterwards
SpliceRest(s, start, deleteCount) ==
    LET st == Min(start, Len(s))
        dc == Min(deleteCount, Len(s) - st)
    IN  SubSeq(s, 1, st) \o SubSeq(s, st + dc + 1, Len(s))

\* Array.prototype.splice(start, 0, item), start >= 0: the array afterwards
SpliceInsert(s, start, item) ==
    LET st == Min(start, Len(s))
    IN  SubSeq(s, 1, st) \o <<item>> \o SubSeq(s, st + 1, Len(s))

\* const [x] = arr : the first element, or undefined
First(arr) == IF Len(arr) > 0 THEN arr[1] ELSE Undefined

Range(s) == { s[k] : k \in 1 .. Len(s) }

\* injective sequences of length n over S
RECURSIVE InjSeqs(_, _)
InjSeqs(S, n) ==
    IF n = 0 THEN { <<>> }
    ELSE UNION { { Append(p, x) : x \in S \ Range(p) } : p \in InjSeqs(S, n - 1) }

\* the FileLists the user can hand over (an empty one included)
Batches == UNION { InjSeqs(Files, n) : n \in 0 .. MaxBatch }

\* ------------------------------------------------ validation (lines 385-397)
\* A validation result: rule "none" is the `null` of the source; otherwise the
\* message names the file and the violated rule.
NoError == [name |-> 0, rule |-> "none"]
TypeError(file) == [name |-> file.name, rule |-> "type"]
SizeError(file) == [name |-> file.name, rule |-> "size"]

\* (mutant) a file of exactly maxSize bytes is rejected
ValidateWith_RejectsAtLimit(file, types, maxSize) ==
    IF file.type \notin types THEN TypeError(file)
    ELSE IF file.size >= maxSize THEN SizeError(file)
    ELSE NoError

ValidateWith(file, types, maxSize) ==
    IF file.type \notin types THEN TypeError(file)
    ELSE IF file.size > maxSize THEN SizeError(file)
    ELSE NoError

validateFile(file) == ValidateWith(file, allowedTypes, maxFileSize)

\* the forEach of lines 430-437: errors[] and validFiles[] in file order
RECURSIVE ValidationErrors(_)
ValidationErrors(fileArray) ==
    IF fileArray = <<>> THEN <<>>
    ELSE (IF validateFile(Head(fileArray)) # NoError
          THEN <<validateFile(Head(fileArray))>> ELSE <<>>)
         \o ValidationErrors(Tail(fileArray))

\* (mutant) one rejected file rejects the whole batch
ValidFiles_AllOrNothing(fileArray) ==
    IF ValidationErrors(fileArray) # <<>> THEN <<>> ELSE fileArray

RECURSIVE ValidFiles(_)
ValidFiles(fileArray) ==
    IF fileArray = <<>> THEN <<>>
    ELSE (IF validateFile(Head(fileArray)) # NoError
          THEN <<>> ELSE <<Head(fileArray)>>)
         \o ValidFiles(Tail(fileArray))

\* (mutant) the ceiling is applied to the incoming files alone
ExceedsMax_IgnoresCurrent(imgs, fileArray, maxImages) ==
    Len(fileArray) > maxImages

\* (mutant) the ceiling counts only the files that pass validation
ExceedsMax_ValidOnly(imgs, fileArray, maxImages) ==
    Len(imgs) + Len(ValidFiles(fileArray)) > maxImages

\* images.length + fileArray.length > maxImages  (line 417)
ExceedsMax(imgs, fileArray, maxImages) ==
    Len(imgs) + Len(fileArray) > maxImages

\* ---------------------------------------------------- list transformations
\* (mutant) the last image is removed, whatever the index
RemoveList_DropsLast(imgs, index) == SubSeq(imgs, 1, Len(imgs) - 1)

\* handleRemoveImage, line 528
RemoveList(imgs, index) == FilterNotIndex(imgs, index, 0)

\* (mutant) the cover and the promoted image trade places
SetAsCoverList_Swap(imgs, index) ==
    [k \in 1 .. Len(imgs) |->
        IF k = 1 THEN At(imgs, index)
        ELSE IF k = index + 1 THEN imgs[1] ELSE imgs[k]]

\* handleSetAsCover, lines 535-537: splice(index, 1) then unshift
SetAsCoverList(imgs, index) ==
    LET movedImage == First(SpliceRemoved(imgs, index, 1))
        newImages  == SpliceRest(imgs, index, 1)
    IN  <<movedImage>> \o newImages

\* (mutant) the target index is taken against the list before the removal
ReorderList_TargetBeforeRemoval(imgs, from, to) ==
    LET movedImage == First(SpliceRemoved(imgs, from, 1))
        newImages  == SpliceRest(imgs, from, 1)
    IN  SpliceInsert(newImages, IF to > from THEN to - 1 ELSE to, movedImage)

\* (mutant) the dragged image and the drop target trade places
ReorderList_Swap(imgs, from, to) ==
    [k \in 1 .. Len(imgs) |->
        IF k = from + 1 /\ to < Len(imgs) THEN At(imgs, to)
        ELSE IF k = to + 1 /\ from < Len(imgs) THEN At(imgs, from)
        ELSE imgs[k]]

\* (mutant) the dragged image is inserted without being removed first
ReorderList_KeepsSource(imgs, from, to) ==
    SpliceInsert(imgs, to, First(SpliceRemoved(imgs, from, 1)))

\* handleDragEnd, lines 593-595: splice(from, 1) then splice(to, 0, moved)
ReorderList(imgs, from, to) ==
    LET movedImage == First(SpliceRemoved(imgs, from, 1))
        newImages  == SpliceRest(imgs, from, 1)
    IN  SpliceInsert(newImages, to, movedImage)

\* handleCropComplete, lines 566-567: newImages[index] = {...image, url}
CropUpdateList(imgs, index, newUrl) ==
    [imgs EXCEPT ![index + 1] = [@ EXCEPT !.url = newUrl]]

\* handleFiles, line 472: [...images, ...newImages]
AppendList(imgs, newImages) == imgs \o newImages

\* fileToDataUrl (lines 400-407): the data URL of the file's bytes
fileToDataUrl(file) == <<"data", file.name>>

\* the string the caller's onUpload resolves to for a file (line 459)
onUpload(file) == <<"upload", file.name>>

\* -------------------------------------------------------------------- state
VARIABLES
    props,          \* the widget's props that the model varies (fixed per run)
    images,         \* the caller's list: what the current render receives
    uploading,      \* useState, line 375
    draggedIndex,   \* useState, line 377
    dragOverIndex,  \* useState, line 378
    batch,          \* the handleFiles call that is awaiting, if any
    cropOps,        \* crop operations in flight (handleSave / handleCropComplete)
    dialogs,        \* state of the ImageCropDialog mounted in each card, by key
    generated,      \* number of generateId calls so far
    crops,          \* number of crop operations started so far
    opens,          \* number of crop dialog openings so far
    last,           \* what the handler step just taken did (observation only)
    probe           \* input and result of a pure function applied on its own

vars == <<probe, props, images, uploading, draggedIndex, dragOverIndex, batch,
          cropOps, dialogs, generated, crops, opens, last>>

\* generateId (line 382), assumed to return a fresh identifier on every call
generateId(n) == 100 + n

\* ------------------------------------------------------------ notifications
Toast(title, variant, what, errors, count) ==
    [title |-> title, variant |-> variant, what |-> what,
     errors |-> errors, count |-> count]

MaxImagesToast == Toast("Error", "destructive", "Maximum images allowed", <<>>, 0)
ValidationToast(errors) ==
    Toast("Validation Errors", "destructive", "errors", errors, 0)
AddedToast(n) == Toast("Success", "default", "image(s) added", <<>>, n)
ProcessFailedToast ==
    Toast("Error", "destructive", "Failed to process images", <<>>, 0)
CoverToast == Toast("Cover Updated", "default", "Image set as cover", <<>>, 0)
NoAreaToast == Toast("Error", "destructive", "No crop area selected", <<>>, 0)
CroppedToast == Toast("Success", "default", "Image cropped successfully", <<>>, 0)
CropErrorToast == Toast("Crop Error", "destructive", "Failed to crop image", <<>>, 0)

\* ------------------------------------------------------------------ records
\* The handleFiles call that is awaiting: the `images` it closed over, the
\* FileList it was given, validFiles and newImages of lines 428 and 452, and,
\* for observation, the notifications it has raised and the files whose
\* resolution it has started.  IdleBatch: no call is awaiting.
IdleBatch ==
    [pc |-> "idle", images |-> <<>>, files |-> <<>>, validFiles |-> <<>>,
     newImages |-> <<>>, toasts |-> <<>>, started |-> <<>>]

\* what a step did: the handler, its arguments, the number of onChange calls it
\* made, the notifications it raised, and the list and the awaiting handleFiles
\* call as they were before the step
Did(op, args, calls, toasts) ==
    [op |-> op, args |-> args, calls |-> calls, toasts |-> toasts,
     images |-> images, batch |-> batch]

\* crop dialog state (lines 55-59); NoArea is the null of croppedAreaPixels
NoArea == [x |-> 0, y |-> 0, width |-> 0, height |-> 0]
Origin == [x |-> 0, y |-> 0]
FreshDialog ==
    [open |-> FALSE, crop |-> Origin, zoom |-> 1,
     croppedAreaPixels |-> NoArea, saving |-> FALSE]

IdsOf(imgs) == { imgs[k].id : k \in 1 .. Len(imgs) }

\* The render after a commit: a card (and the dialog in it) is keyed by
\* image.id (line 683); a key that stays keeps its state, a key that appears
\* mounts a fresh dialog, a key that disappears unmounts.
Rerender(imgs, ds) ==
    [id \in (IF props.enableCrop THEN IdsOf(imgs) \ {Undefined.id} ELSE {}) |->
        IF id \in DOMAIN ds THEN ds[id] ELSE FreshDialog]

\* images.map(... key={image.id} ...) of line 681 throws on an undefined slot
Rendered == \A k \in 1 .. Len(images) : images[k] # Undefined

\* a crop dialog is open: the Dialog is modal, the page behind it is inert
ModalOpen == \E id \in DOMAIN dialogs : dialogs[id].open

\* a card is being dragged: the pointer is held by the drag
Dragging == draggedIndex # NULL

\* the pointer is free to click a button of the grid or the drop zone
PointerFree == Rendered /\ ~ModalOpen /\ ~Dragging

\* the props a run may be configured with (lines 358-373); the callbacks are
\* optional, the feature toggles default to true, maxImages to 10
\* The configurations of the runs: the demo page's (no callbacks, every
\* feature on), the one with both callbacks supplied and reordering off, and
\* each of the two with cropping off.
Props ==
    { [maxImages |-> IF c THEN MaxImagesCrop ELSE MaxImagesNoCrop,
       onUpload |-> cb, onCropComplete |-> cb, enableReorder |-> ~cb,
       enableCrop |-> c] :
      cb \in BOOLEAN, c \in BOOLEAN }

\* the bound on generateId calls of the run
MaxGenerated == IF props.enableCrop THEN MaxGeneratedCrop ELSE MaxGeneratedNoCrop

\* no pure function is being applied on its own
NoProbe == [fn |-> "none"]

\* the run exercises the crop dialog on its own, and its bounds
DialogProbe == [fn |-> "dialog"]
CropsOfRun == IF probe = DialogProbe THEN MaxDialogCrops ELSE MaxCrops
CropOpsOfRun == IF probe = DialogProbe THEN MaxDialogCropOps ELSE MaxCropOps
OpensOfRun == IF probe = DialogProbe THEN MaxDialogOpens ELSE MaxOpens

InitialList(n) == [k \in 1 .. n |-> InitialItem(k)]

Init ==
    /\ props \in Props
    /\ images \in { InitialList(n) : n \in 0 .. Min(MaxInitial, props.maxImages) }
    /\ uploading = FALSE
    /\ draggedIndex = NULL
    /\ dragOverIndex = NULL
    /\ batch = IdleBatch
    /\ cropOps = <<>>
    /\ dialogs = Rerender(images, <<>>)
    /\ generated = 0
    /\ crops = 0
    /\ opens = 0
    /\ last = [op |-> "init", args |-> <<>>, calls |-> 0, toasts |-> <<>>,
               images |-> images, batch |-> IdleBatch]
    /\ probe = NoProbe

\* a commit unmounts the dialogs whose key left the list: the setState calls
\* an operation in flight later makes on such a dialog have no effect
Unmount(ops, imgs) ==
    [k \in 1 .. Len(ops) |->
        [ops[k] EXCEPT !.mounted = @ /\ ops[k].id \in IdsOf(imgs)]]

\* onChange(list) as wired by the caller: the next render receives `list`
Commit(list, ops) ==
    /\ images' = list
    /\ dialogs' = Rerender(list, dialogs)
    /\ cropOps' = Unmount(ops, list)

\* ----------------------------------------------------- handleFiles, 410-496
\* The call up to its first await.  The drop zone ignores the pointer while
\* uploading (line 630), so no call starts while another one is awaiting.
handleFiles(files) ==
    /\ PointerFree
    /\ ~uploading
    /\ generated + Len(ValidFiles(files)) <= MaxGenerated
    /\ UNCHANGED <<probe, props, images, draggedIndex, dragOverIndex, cropOps,
                   dialogs, generated, crops, opens>>
    /\ IF Len(files) = 0
       THEN /\ last' = Did("handleFiles", <<Len(files)>>, 0, <<>>)
            /\ UNCHANGED <<uploading, batch>>
       ELSE IF ExceedsMax(images, files, props.maxImages)
       THEN /\ last' = Did("handleFiles", <<Len(files)>>, 0, <<MaxImagesToast>>)
            /\ UNCHANGED <<uploading, batch>>
       ELSE LET errors == ValidationErrors(files)
                valid  == ValidFiles(files)
                toasts == IF Len(errors) > 0
                          THEN <<ValidationToast(errors)>> ELSE <<>>
                b == [IdleBatch EXCEPT !.images = images, !.files = files,
                                       !.validFiles = valid, !.toasts = toasts]
            IN  IF Len(valid) > 0
                THEN /\ uploading' = TRUE
                     /\ batch' = [b EXCEPT !.pc = "await",
                                           !.started = <<valid[1]>>]
                     /\ last' = Did("handleFiles", <<Len(files)>>, 0, toasts)
                ELSE /\ UNCHANGED <<uploading, batch>>
                     /\ last' = Did("handleFiles", <<Len(files)>>, 0, toasts)

\* the file the awaiting call is resolving (line 454)
CurrentFile == batch.validFiles[Len(batch.newImages) + 1]

\* (mutant) the file is read into a data URL even when onUpload is supplied
ResolvedUrl_AlwaysReads(file) == fileToDataUrl(file)

\* the url the awaited promise resolves to (lines 457-463)
ResolvedUrl(file) ==
    IF props.onUpload THEN onUpload(file) ELSE fileToDataUrl(file)

\* The awaited onUpload / fileToDataUrl promise resolves (lines 459-470); after
\* the last file the call commits and ends (lines 472-477, 486).
\* A promise settles, and the code after the await runs, whether or not the
\* widget still renders: no continuation is guarded by Rendered.
FileResolved ==
    /\ batch.pc = "await"
    /\ LET url == ResolvedUrl(CurrentFile)
           item == ImageItem(generateId(generated), url, CurrentFile)
           newImages == Append(batch.newImages, item)
       IN  /\ generated' = generated + 1
           /\ IF Len(newImages) < Len(batch.validFiles)
              THEN /\ batch' = [batch EXCEPT
                                  !.newImages = newImages,
                                  !.started =
                                      Append(@, batch.validFiles[Len(newImages) + 1])]
                   /\ last' = Did("fileResolved", <<>>, 0, <<>>)
                   /\ UNCHANGED <<images, uploading, dialogs, cropOps>>
              ELSE /\ Commit(AppendList(batch.images, newImages), cropOps)
                   /\ uploading' = FALSE
                   /\ batch' = IdleBatch
                   /\ last' = Did("fileResolved", <<>>, 1,
                                  <<AddedToast(Len(newImages))>>)
    /\ UNCHANGED <<probe, props, draggedIndex, dragOverIndex, crops, opens>>

\* (mutant) the records built before the failure are committed
FileRejected_CommitsResolved ==
    /\ Rendered
    /\ batch.pc = "await"
    /\ Commit(AppendList(batch.images, batch.newImages), cropOps)
    /\ last' = Did("fileRejected", <<>>, 1, <<ProcessFailedToast>>)
    /\ uploading' = FALSE
    /\ batch' = IdleBatch
    /\ UNCHANGED <<probe, props, draggedIndex, dragOverIndex, generated,
                   crops, opens>>

\* (mutant) the catch block without the finally block: uploading stays true
FileRejected_KeepsUploading ==
    /\ batch.pc = "await"
    /\ last' = Did("fileRejected", <<>>, 0, <<ProcessFailedToast>>)
    /\ batch' = IdleBatch
    /\ UNCHANGED <<probe, props, images, uploading, draggedIndex, dragOverIndex,
                   cropOps, dialogs, generated, crops, opens>>

\* (mutant) a failed resolution is tried again instead of ending the call
FileRejected_Retries ==
    /\ batch.pc = "await"
    /\ Len(batch.started) <= MaxBatch
    /\ last' = Did("fileRejected", <<>>, 0, <<ProcessFailedToast>>)
    /\ batch' = [batch EXCEPT !.started = Append(@, CurrentFile)]
    /\ UNCHANGED <<probe, props, images, uploading, draggedIndex, dragOverIndex,
                   cropOps, dialogs, generated, crops, opens>>

\* The awaited promise rejects: catch and finally (lines 478-487).
FileRejected ==
    /\ batch.pc = "await"
    /\ last' = Did("fileRejected", <<>>, 0, <<ProcessFailedToast>>)
    /\ uploading' = FALSE
    /\ batch' = IdleBatch
    /\ UNCHANGED <<probe, props, images, draggedIndex, dragOverIndex, cropOps,
                   dialogs, generated, crops, opens>>

\* ---------------------------------------------- handleRemoveImage, 527-530
handleRemoveImage(index) ==
    /\ PointerFree
    /\ index \in Indices(images)
    /\ Commit(RemoveList(images, index), cropOps)
    /\ last' = Did("handleRemoveImage", <<index>>, 1, <<>>)
    /\ UNCHANGED <<probe, props, uploading, draggedIndex, dragOverIndex, batch,
                   generated, crops, opens>>

\* (mutant) the index === 0 early return is missing
handleSetAsCover_NoGuard(index) ==
    /\ PointerFree
    /\ index \in Indices(images)
    /\ Commit(SetAsCoverList(images, index), cropOps)
    /\ last' = Did("handleSetAsCover", <<index>>, 1, <<CoverToast>>)
    /\ UNCHANGED <<probe, props, uploading, draggedIndex, dragOverIndex, batch,
                   generated, crops, opens>>

\* ----------------------------------------------- handleSetAsCover, 533-543
handleSetAsCover(index) ==
    /\ PointerFree
    /\ index \in Indices(images)
    /\ IF index = 0
       THEN /\ last' = Did("handleSetAsCover", <<index>>, 0, <<>>)
            /\ UNCHANGED <<images, dialogs, cropOps>>
       ELSE /\ Commit(SetAsCoverList(images, index), cropOps)
            /\ last' = Did("handleSetAsCover", <<index>>, 1, <<CoverToast>>)
    /\ UNCHANGED <<probe, props, uploading, draggedIndex, dragOverIndex, batch,
                   generated, crops, opens>>

\* (mutant) the enableReorder early return of handleDragStart is missing
handleDragStart_NoGuard(index) ==
    /\ Rendered /\ ~ModalOpen /\ ~Dragging
    /\ index \in Indices(images)
    /\ draggedIndex' = index
    /\ last' = Did("handleDragStart", <<>>, 0, <<>>)
    /\ UNCHANGED <<probe, props, images, uploading, dragOverIndex, batch, cropOps,
                   dialogs, generated, crops, opens>>

\* ------------------------------------------------ handleDragStart, 572-577
handleDragStart(index) ==
    /\ Rendered /\ ~ModalOpen /\ ~Dragging
    /\ index \in Indices(images)
    /\ draggedIndex' = IF ~props.enableReorder THEN draggedIndex ELSE index
    /\ last' = Did("handleDragStart", <<>>, 0, <<>>)
    /\ UNCHANGED <<probe, props, images, uploading, dragOverIndex, batch, cropOps,
                   dialogs, generated, crops, opens>>

\* ------------------------------------------------- handleDragOver, 579-583
handleDragOver(index) ==
    /\ Rendered /\ ~ModalOpen
    /\ index \in Indices(images)
    /\ dragOverIndex' = IF ~props.enableReorder \/ draggedIndex = NULL
                        THEN dragOverIndex ELSE index
    /\ last' = Did("handleDragOver", <<>>, 0, <<>>)
    /\ UNCHANGED <<probe, props, images, uploading, draggedIndex, batch, cropOps,
                   dialogs, generated, crops, opens>>

\* -------------------------------------------------- handleDragEnd, 585-601
handleDragEnd ==
    /\ Rendered /\ ~ModalOpen
    /\ IF ~props.enableReorder \/ draggedIndex = NULL \/ dragOverIndex = NULL
       THEN /\ last' = Did("handleDragEnd", <<draggedIndex, dragOverIndex>>, 0, <<>>)
            /\ UNCHANGED <<images, dialogs, cropOps>>
       ELSE IF draggedIndex # dragOverIndex
       THEN /\ Commit(ReorderList(images, draggedIndex, dragOverIndex), cropOps)
            /\ last' = Did("handleDragEnd", <<draggedIndex, dragOverIndex>>, 1, <<>>)
       ELSE /\ last' = Did("handleDragEnd", <<draggedIndex, dragOverIndex>>, 0, <<>>)
            /\ UNCHANGED <<images, dialogs, cropOps>>
    /\ draggedIndex' = NULL
    /\ dragOverIndex' = NULL
    /\ UNCHANGED <<probe, props, uploading, batch, generated, crops, opens>>

\* ------------------------------------------------ ImageCropDialog, 45-263
Points == { Origin, [x |-> 10, y |-> 0] }
Zooms == { 1, 2 }
Areas == { [x |-> 100, y |-> 0, width |-> 750, height |-> 562] }

\* images.map((image, index) => ...): the index of the card with this key
IndexOf(imgs, id) == (CHOOSE k \in 1 .. Len(imgs) : imgs[k].id = id) - 1

\* the crop button of a card, line 185: setOpen(true)
OpenDialog(id) ==
    /\ PointerFree
    /\ id \in DOMAIN dialogs
    /\ opens < OpensOfRun
    /\ dialogs' = [dialogs EXCEPT ![id].open = TRUE]
    /\ opens' = opens + 1
    /\ last' = Did("openDialog", <<>>, 0, <<>>)
    /\ UNCHANGED <<probe, props, images, uploading, draggedIndex, dragOverIndex,
                   batch, cropOps, generated, crops>>

\* onOpenChange(false) of line 191 (Escape, outside click, close button) or the
\* Cancel button of line 243; only the latter is disabled while saving
CloseDialog(id) ==
    /\ Rendered
    /\ id \in DOMAIN dialogs
    /\ dialogs[id].open
    /\ dialogs' = [dialogs EXCEPT ![id].open = FALSE]
    /\ last' = Did("closeDialog", <<>>, 0, <<>>)
    /\ UNCHANGED <<probe, props, images, uploading, draggedIndex, dragOverIndex,
                   batch, cropOps, generated, crops, opens>>

\* onCropChange, lines 61-63: the user pans
onCropChange(id, location) ==
    /\ Rendered
    /\ id \in DOMAIN dialogs
    /\ dialogs[id].open
    /\ dialogs' = [dialogs EXCEPT ![id].crop = location]
    /\ last' = Did("onCropChange", <<>>, 0, <<>>)
    /\ UNCHANGED <<probe, props, images, uploading, draggedIndex, dragOverIndex,
                   batch, cropOps, generated, crops, opens>>

\* onZoomChange, lines 65-67, and the slider of line 220
onZoomChange(id, z) ==
    /\ Rendered
    /\ id \in DOMAIN dialogs
    /\ dialogs[id].open
    /\ dialogs' = [dialogs EXCEPT ![id].zoom = z]
    /\ last' = Did("onZoomChange", <<>>, 0, <<>>)
    /\ UNCHANGED <<probe, props, images, uploading, draggedIndex, dragOverIndex,
                   batch, cropOps, generated, crops, opens>>

\* onCropCompleteCallback, lines 69-74: the Cropper reports a pixel rectangle
onCropCompleteCallback(id, area) ==
    /\ Rendered
    /\ id \in DOMAIN dialogs
    /\ dialogs[id].open
    /\ dialogs' = [dialogs EXCEPT ![id].croppedAreaPixels = area]
    /\ last' = Did("onCropCompleteCallback", <<>>, 0, <<>>)
    /\ UNCHANGED <<probe, props, images, uploading, draggedIndex, dragOverIndex,
                   batch, cropOps, generated, crops, opens>>

\* a crop operation in flight: the closure handleSave was called with (the
\* render's images and the card's index), the rectangle it consumes, and where
\* it is: "cropping" awaits createCroppedImage (line 154), "resolving" awaits
\* the url inside handleCropComplete (lines 556-563)
CropOp(id, imgs, index, area, serial) ==
    [stage |-> "cropping", id |-> id, images |-> imgs, index |-> index,
     area |-> area, serial |-> serial, mounted |-> TRUE]

\* handleSave up to its first await, lines 142-154; Save is disabled while
\* saving (line 248)
\* what a Save press is recorded with: the dialog, its croppedAreaPixels and
\* the number of crops attempted so far
SaveArgs(id) == <<id, dialogs[id].croppedAreaPixels, crops>>

\* (mutant) the !croppedAreaPixels early return of lines 143-150 is missing
handleSave_NoGuard(id) ==
    /\ Rendered
    /\ id \in DOMAIN dialogs
    /\ dialogs[id].open
    /\ ~dialogs[id].saving
    /\ crops < CropsOfRun
    /\ Len(cropOps) < CropOpsOfRun
    /\ dialogs' = [dialogs EXCEPT ![id].saving = TRUE]
    /\ cropOps' = Append(cropOps,
                         CropOp(id, images, IndexOf(images, id),
                                dialogs[id].croppedAreaPixels, crops + 1))
    /\ crops' = crops + 1
    /\ last' = Did("handleSave", SaveArgs(id), 0, <<>>)
    /\ UNCHANGED <<probe, props, images, uploading, draggedIndex, dragOverIndex,
                   batch, generated, opens>>

handleSave(id) ==
    /\ Rendered
    /\ id \in DOMAIN dialogs
    /\ dialogs[id].open
    /\ ~dialogs[id].saving
    /\ IF dialogs[id].croppedAreaPixels = NoArea
       THEN /\ last' = Did("handleSave", SaveArgs(id), 0, <<NoAreaToast>>)
            /\ UNCHANGED <<dialogs, cropOps, crops>>
       ELSE /\ crops < CropsOfRun
            /\ Len(cropOps) < CropOpsOfRun
            /\ dialogs' = [dialogs EXCEPT ![id].saving = TRUE]
            /\ cropOps' = Append(cropOps,
                                 CropOp(id, images, IndexOf(images, id),
                                        dialogs[id].croppedAreaPixels, crops + 1))
            /\ crops' = crops + 1
            /\ last' = Did("handleSave", SaveArgs(id), 0, <<>>)
    /\ UNCHANGED <<probe, props, images, uploading, draggedIndex, dragOverIndex,
                   batch, generated, opens>>

RemoveOp(ops, k) == SubSeq(ops, 1, k - 1) \o SubSeq(ops, k + 1, Len(ops))

\* setState of a dialog from an operation in flight
SetDialog(op, f(_)) ==
    IF op.mounted /\ op.id \in DOMAIN dialogs
    THEN [dialogs EXCEPT ![op.id] = f(@)]
    ELSE dialogs

Closed(d) == [d EXCEPT !.open = FALSE, !.crop = Origin, !.zoom = 1,
                       !.saving = FALSE]
NotSaving(d) == [d EXCEPT !.saving = FALSE]

\* createCroppedImage resolves (lines 95-140): handleSave goes on with lines
\* 155-165 and 174; onCropComplete(croppedImage) runs handleCropComplete up to
\* its await (lines 546-563) and is not awaited
CropImageDone(k) ==
    /\ k \in 1 .. Len(cropOps)
    /\ cropOps[k].stage = "cropping"
    /\ cropOps' = [cropOps EXCEPT ![k].stage = "resolving"]
    /\ dialogs' = SetDialog(cropOps[k], Closed)
    /\ last' = Did("cropImageDone", <<>>, 0, <<CroppedToast>>)
    /\ UNCHANGED <<probe, props, images, uploading, draggedIndex, dragOverIndex,
                   batch, generated, crops, opens>>

\* the dialog of an operation in flight is mounted and open
WasOpen(op) ==
    op.mounted /\ op.id \in DOMAIN dialogs /\ dialogs[op.id].open

\* what a failed save is observed with: the key of its dialog, whether that
\* dialog was open, and whether it is still the dialog the save began in
FailedSave(op) == <<op.id, WasOpen(op), op.mounted /\ op.id \in DOMAIN dialogs>>

\* (mutant) the failed crop is committed all the same
CropImageFailed_Commits(k) ==
    /\ Rendered
    /\ k \in 1 .. Len(cropOps)
    /\ cropOps[k].stage = "cropping"
    /\ Commit(CropUpdateList(cropOps[k].images, cropOps[k].index,
                             <<"cropped-data", cropOps[k].serial>>),
              RemoveOp(cropOps, k))
    /\ last' = Did("cropImageFailed", FailedSave(cropOps[k]),
                   1, <<CropErrorToast>>)
    /\ UNCHANGED <<probe, props, uploading, draggedIndex, dragOverIndex, batch,
                   generated, crops, opens>>

\* (mutant) the failure closes the dialog as a success does
CropImageFailed_Closes(k) ==
    /\ Rendered
    /\ k \in 1 .. Len(cropOps)
    /\ cropOps[k].stage = "cropping"
    /\ cropOps' = RemoveOp(cropOps, k)
    /\ dialogs' = SetDialog(cropOps[k], Closed)
    /\ last' = Did("cropImageFailed", FailedSave(cropOps[k]),
                   0, <<CropErrorToast>>)
    /\ UNCHANGED <<probe, props, images, uploading, draggedIndex, dragOverIndex,
                   batch, generated, crops, opens>>

\* createCroppedImage rejects: the image fails to load (line 81), no 2d
\* context (line 104) or toBlob yields null (line 131); lines 166-174
CropImageFailed(k) ==
    /\ k \in 1 .. Len(cropOps)
    /\ cropOps[k].stage = "cropping"
    /\ cropOps' = RemoveOp(cropOps, k)
    /\ dialogs' = SetDialog(cropOps[k], NotSaving)
    /\ last' = Did("cropImageFailed", FailedSave(cropOps[k]),
                   0, <<CropErrorToast>>)
    /\ UNCHANGED <<probe, props, images, uploading, draggedIndex, dragOverIndex,
                   batch, generated, crops, opens>>

\* the url a crop resolves to: what the caller's onCropComplete returns (line
\* 556) or the data URL of the blob (lines 559-563)
CropUrl(op) ==
    IF props.onCropComplete THEN <<"cropped-upload", op.serial>>
    ELSE <<"cropped-data", op.serial>>

\* the awaited url arrives: lines 566-568
CropUrlResolved(k) ==
    /\ k \in 1 .. Len(cropOps)
    /\ cropOps[k].stage = "resolving"
    /\ Commit(CropUpdateList(cropOps[k].images, cropOps[k].index,
                             CropUrl(cropOps[k])),
              RemoveOp(cropOps, k))
    /\ last' = Did("cropUrlResolved",
                   <<cropOps[k].id, cropOps[k].index, cropOps[k].images>>,
                   1, <<>>)
    /\ UNCHANGED <<probe, props, uploading, draggedIndex, dragOverIndex, batch,
                   generated, crops, opens>>

\* the awaited url never arrives: the caller's onCropComplete rejects, or the
\* FileReader fails (it has no onerror, line 559); nothing catches it, since
\* handleSave does not await handleCropComplete (line 155)
CropUrlFailed(k) ==
    /\ k \in 1 .. Len(cropOps)
    /\ cropOps[k].stage = "resolving"
    /\ cropOps' = RemoveOp(cropOps, k)
    /\ last' = Did("cropUrlFailed", <<>>, 0, <<>>)
    /\ UNCHANGED <<probe, props, images, uploading, draggedIndex, dragOverIndex,
                   batch, dialogs, generated, crops, opens>>

\* ------------------------------------------------------------ specification
Next ==
    \/ \E files \in Batches : handleFiles(files)
    \/ FileResolved
    \/ FileRejected
    \/ \E index \in Indices(images) : handleRemoveImage(index)
    \/ \E index \in Indices(images) : handleSetAsCover(index)
    \/ \E index \in Indices(images) : handleDragStart(index)
    \/ \E index \in Indices(images) : handleDragOver(index)
    \/ handleDragEnd
    \/ \E id \in DOMAIN dialogs : OpenDialog(id)
    \/ \E id \in DOMAIN dialogs : CloseDialog(id)
    \/ \E id \in DOMAIN dialogs, area \in Areas : onCropCompleteCallback(id, area)
    \/ \E id \in DOMAIN dialogs : handleSave(id)
    \/ \E k \in 1 .. MaxCropOps : CropImageDone(k)
    \/ \E k \in 1 .. MaxCropOps : CropImageFailed(k)
    \/ \E k \in 1 .. MaxCropOps : CropUrlResolved(k)
    \/ \E k \in 1 .. MaxCropOps : CropUrlFailed(k)

Spec == Init /\ [][Next]_vars

\* Every file read and every onUpload call eventually resolves or rejects:
\* the promise handleFiles awaits (lines 459, 462) does not stay pending.
FairResolution == WF_vars(FileResolved \/ FileRejected)

SpecLive == Spec /\ FairResolution

\* ------------------------------------------- validateFile applied on its own
ProbeFiles ==
    [name : {7},
     type : {"image/png", "image/gif", "text/plain", ""},
     size : {0, 1, DEFAULT_MAX_FILE_SIZE - 1, DEFAULT_MAX_FILE_SIZE,
             DEFAULT_MAX_FILE_SIZE + 1}]
ProbeTypes == { DEFAULT_ALLOWED_TYPES, {"image/png"}, {} }
ProbeSizes == { DEFAULT_MAX_FILE_SIZE, 1 }

InitValidate ==
    /\ probe \in [fn : {"validateFile"}, pc : {"call"}, file : ProbeFiles,
                  types : ProbeTypes, maxSize : ProbeSizes, result : {NoError}]
    /\ props = [maxImages |-> MaxImagesCrop, onUpload |-> FALSE,
                onCropComplete |-> FALSE, enableReorder |-> TRUE,
                enableCrop |-> TRUE]
    /\ images = <<>>
    /\ uploading = FALSE
    /\ draggedIndex = NULL
    /\ dragOverIndex = NULL
    /\ batch = IdleBatch
    /\ cropOps = <<>>
    /\ dialogs = <<>>
    /\ generated = 0
    /\ crops = 0
    /\ opens = 0
    /\ last = [op |-> "init", args |-> <<>>, calls |-> 0, toasts |-> <<>>,
               images |-> <<>>, batch |-> IdleBatch]

Validate ==
    /\ probe.fn = "validateFile"
    /\ probe.pc = "call"
    /\ probe' = [probe EXCEPT
                   !.pc = "return",
                   !.result = ValidateWith(probe.file, probe.types, probe.maxSize)]
    /\ UNCHANGED <<props, images, uploading, draggedIndex, dragOverIndex,
                   batch, cropOps, dialogs, generated, crops, opens, last>>

NextValidate == Validate

SpecValidate == InitValidate /\ [][NextValidate]_vars

\* ---------------------------------- the reorder of handleDragEnd on its own
\* A drag from `from` to `to` on a list, then the drag back on the result.
MaxReorderLen == 5

ReorderInputs ==
    { [list |-> InitialList(n), from |-> i, to |-> j] :
        n \in 2 .. MaxReorderLen, i \in 0 .. MaxReorderLen - 1,
        j \in 0 .. MaxReorderLen - 1 }

InitReorder ==
    /\ \E input \in ReorderInputs :
          /\ input.from \in Indices(input.list)
          /\ input.to \in Indices(input.list)
          /\ input.from # input.to
          /\ probe = [fn |-> "reorder", pc |-> "call", list |-> input.list,
                      from |-> input.from, to |-> input.to,
                      there |-> <<>>, back |-> <<>>]
    /\ props = [maxImages |-> MaxReorderLen, onUpload |-> FALSE,
                onCropComplete |-> FALSE, enableReorder |-> TRUE,
                enableCrop |-> FALSE]
    /\ images = <<>>
    /\ uploading = FALSE
    /\ draggedIndex = NULL
    /\ dragOverIndex = NULL
    /\ batch = IdleBatch
    /\ cropOps = <<>>
    /\ dialogs = <<>>
    /\ generated = 0
    /\ crops = 0
    /\ opens = 0
    /\ last = [op |-> "init", args |-> <<>>, calls |-> 0, toasts |-> <<>>,
               images |-> <<>>, batch |-> IdleBatch]

\* lines 592-596 with draggedIndex = from and dragOverIndex = to
ReorderThere ==
    /\ probe.fn = "reorder"
    /\ probe.pc = "call"
    /\ probe' = [probe EXCEPT
                   !.pc = "there",
                   !.there = ReorderList(probe.list, probe.from, probe.to)]
    /\ UNCHANGED <<props, images, uploading, draggedIndex, dragOverIndex,
                   batch, cropOps, dialogs, generated, crops, opens, last>>

\* lines 592-596 again, on the result, with draggedIndex = to and
\* dragOverIndex = from
ReorderBack ==
    /\ probe.fn = "reorder"
    /\ probe.pc = "there"
    /\ probe' = [probe EXCEPT
                   !.pc = "back",
                   !.back = ReorderList(probe.there, probe.to, probe.from)]
    /\ UNCHANGED <<props, images, uploading, draggedIndex, dragOverIndex,
                   batch, cropOps, dialogs, generated, crops, opens, last>>

NextReorder == ReorderThere \/ ReorderBack

SpecReorder == InitReorder /\ [][NextReorder]_vars

\* ------------------------------------------------ the crop dialog on its own
\* A list that only the crop flow touches: the dialog of a card is opened,
\* panned, zoomed, cancelled or saved, more than once.
InitDialog ==
    /\ probe = DialogProbe
    /\ props \in { p \in Props : p.enableCrop }
    /\ images \in { InitialList(n) : n \in 1 .. MaxDialogImages }
    /\ uploading = FALSE
    /\ draggedIndex = NULL
    /\ dragOverIndex = NULL
    /\ batch = IdleBatch
    /\ cropOps = <<>>
    /\ dialogs = Rerender(images, <<>>)
    /\ generated = 0
    /\ crops = 0
    /\ opens = 0
    /\ last = [op |-> "init", args |-> <<>>, calls |-> 0, toasts |-> <<>>,
               images |-> images, batch |-> IdleBatch]

NextDialog ==
    \/ \E id \in DOMAIN dialogs : OpenDialog(id)
    \/ \E id \in DOMAIN dialogs : CloseDialog(id)
    \/ \E id \in DOMAIN dialogs, location \in Points : onCropChange(id, location)
    \/ \E id \in DOMAIN dialogs, z \in Zooms : onZoomChange(id, z)
    \/ \E id \in DOMAIN dialogs, area \in Areas : onCropCompleteCallback(id, area)
    \/ \E id \in DOMAIN dialogs : handleSave(id)
    \/ \E k \in 1 .. MaxDialogCropOps : CropImageDone(k)
    \/ \E k \in 1 .. MaxDialogCropOps : CropImageFailed(k)
    \/ \E k \in 1 .. MaxDialogCropOps : CropUrlResolved(k)
    \/ \E k \in 1 .. MaxDialogCropOps : CropUrlFailed(k)

SpecDialog == InitDialog /\ [][NextDialog]_vars

\* --------------------------------------- createCroppedImage applied on its own
\* The canvas of lines 99-121: its size and the arguments of the one drawImage
\* call (source rectangle sx, sy, sw, sh and destination rectangle dx, dy, dw,
\* dh).

\* (mutant) the canvas takes the size of the source image
Canvas_SourceSized(image, pixelCrop) ==
    [width |-> image.width, height |-> image.height,
     sx |-> pixelCrop.x, sy |-> pixelCrop.y,
     sw |-> pixelCrop.width, sh |-> pixelCrop.height,
     dx |-> 0, dy |-> 0, dw |-> image.width, dh |-> image.height]

Canvas(image, pixelCrop) ==
    [width |-> pixelCrop.width, height |-> pixelCrop.height,
     sx |-> pixelCrop.x, sy |-> pixelCrop.y,
     sw |-> pixelCrop.width, sh |-> pixelCrop.height,
     dx |-> 0, dy |-> 0, dw |-> pixelCrop.width, dh |-> pixelCrop.height]

NoCanvas == [width |-> 0, height |-> 0, sx |-> 0, sy |-> 0, sw |-> 0, sh |-> 0,
             dx |-> 0, dy |-> 0, dw |-> 0, dh |-> 0]

\* createCroppedImage, lines 95-140, on the Blob path (returnDataUrl is not
\* passed, line 753): rejects when the image fails to load (line 81), when
\* there is no 2d context (line 104) and when toBlob yields null (line 131),
\* which it does for a canvas without pixels
createCroppedImage(image, pixelCrop, context) ==
    IF ~image.loads
    THEN [ok |-> FALSE, error |-> "load", canvas |-> NoCanvas]
    ELSE IF ~context
    THEN [ok |-> FALSE, error |-> "No 2d context", canvas |-> NoCanvas]
    ELSE LET canvas == Canvas(image, pixelCrop)
         IN  IF canvas.width = 0 \/ canvas.height = 0
             THEN [ok |-> FALSE, error |-> "Canvas is empty", canvas |-> canvas]
             ELSE [ok |-> TRUE, error |-> "", canvas |-> canvas]

SourceImages ==
    { [width |-> 800, height |-> 600, loads |-> TRUE],
      [width |-> 1024, height |-> 768, loads |-> TRUE],
      [width |-> 0, height |-> 0, loads |-> FALSE] }

PixelCrops ==
    [x : {0, 100}, y : {0, 50}, width : {0, 750, 800, 1024},
     height : {562, 600, 768}]

InitCrop ==
    /\ probe \in [fn : {"createCroppedImage"}, pc : {"call"},
                  image : SourceImages, pixelCrop : PixelCrops,
                  context : BOOLEAN,
                  result : {[ok |-> FALSE, error |-> "", canvas |-> NoCanvas]}]
    /\ props = [maxImages |-> MaxImagesCrop, onUpload |-> FALSE,
                onCropComplete |-> FALSE, enableReorder |-> TRUE,
                enableCrop |-> TRUE]
    /\ images = <<>>
    /\ uploading = FALSE
    /\ draggedIndex = NULL
    /\ dragOverIndex = NULL
    /\ batch = IdleBatch
    /\ cropOps = <<>>
    /\ dialogs = <<>>
    /\ generated = 0
    /\ crops = 0
    /\ opens = 0
    /\ last = [op |-> "init", args |-> <<>>, calls |-> 0, toasts |-> <<>>,
               images |-> <<>>, batch |-> IdleBatch]

Crop ==
    /\ probe.fn = "createCroppedImage"
    /\ probe.pc = "call"
    /\ probe' = [probe EXCEPT
                   !.pc = "return",
                   !.result = createCroppedImage(probe.image, probe.pixelCrop,
                                                 probe.context)]
    /\ UNCHANGED <<props, images, uploading, draggedIndex, dragOverIndex,
                   batch, cropOps, dialogs, generated, crops, opens, last>>

NextCrop == Crop

SpecCrop == InitCrop /\ [][NextCrop]_vars

\* ------------------------------------------------ createImage applied on its own
\* A URL is the sequence of the pieces it is written with, so that
\* url.startsWith(prefix) is "the pieces of prefix are the first pieces of
\* url": <<"https://app.example", "/uploads", "/a.png">> is
\* https://app.example/uploads/a.png and <<"/uploads", "-old", "/a.png">> is
\* /uploads-old/a.png.
startsWith(url, prefix) ==
    /\ Len(prefix) <= Len(url)
    /\ SubSeq(url, 1, Len(prefix)) = prefix

\* createImage, lines 77-92: the crossOrigin attribute the image is loaded
\* with; locationOrigin is window.location.origin
createImage(url, locationOrigin) ==
    IF /\ ~startsWith(url, <<"/uploads">>)
       /\ ~startsWith(url, <<locationOrigin>>)
       /\ ~startsWith(url, <<"data:">>)
    THEN "anonymous"
    ELSE "unset"

Origins == {"https://app.example", "https://cdn.example"}

\* absolute URLs (also of a host that merely begins like another one),
\* relative paths, data: URLs
Hosts == { <<o>> : o \in Origins } \cup { <<o, ".evil.example">> : o \in Origins }
Paths ==
    { <<"/uploads", "/a.png">>, <<"/uploads">>, <<"/uploads", "-old", "/a.png">>,
      <<"/images", "/a.png">>, <<"/images", "/uploads", "/a.png">>, <<"/a.png">> }
Urls ==
    { h \o p : h \in Hosts, p \in Paths }
    \cup Paths
    \cup { <<"data:", "image/png;base64,AAAA">>, <<"data:", "image/jpeg;base64,BBBB">> }

InitImage ==
    /\ probe \in [fn : {"createImage"}, pc : {"call"}, url : Urls,
                  locationOrigin : Origins, result : {"unset"}]
    /\ props = [maxImages |-> MaxImagesCrop, onUpload |-> FALSE,
                onCropComplete |-> FALSE, enableReorder |-> TRUE,
                enableCrop |-> TRUE]
    /\ images = <<>>
    /\ uploading = FALSE
    /\ draggedIndex = NULL
    /\ dragOverIndex = NULL
    /\ batch = IdleBatch
    /\ cropOps = <<>>
    /\ dialogs = <<>>
    /\ generated = 0
    /\ crops = 0
    /\ opens = 0
    /\ last = [op |-> "init", args |-> <<>>, calls |-> 0, toasts |-> <<>>,
               images |-> <<>>, batch |-> IdleBatch]

LoadImage ==
    /\ probe.fn = "createImage"
    /\ probe.pc = "call"
    /\ probe' = [probe EXCEPT
                   !.pc = "return",
                   !.result = createImage(probe.url, probe.locationOrigin)]
    /\ UNCHANGED <<props, images, uploading, draggedIndex, dragOverIndex,
                   batch, cropOps, dialogs, generated, crops, opens, last>>

NextImage == LoadImage

SpecImage == InitImage /\ [][NextImage]_vars

\* ------------------------------------------------------------------- claims
\* a file the Validator accepts: allowed type and size within the limit
AcceptedFile(f) == f.type \in allowedTypes /\ f.size <= maxFileSize
RejectedFile(f) == ~AcceptedFile(f)

\* s without its k-th element (1-based)
Without(s, k) == [j \in 1 .. (Len(s) - 1) |-> IF j < k THEN s[j] ELSE s[j + 1]]

\* the step just taken ended a handleFiles call by committing its batch
BatchCommitted == last.op = "fileResolved" /\ last.calls = 1

\* C1: every list handed to onChange (hence every list the widget is rendered
\* with) has at most maxImages records.
C1_AtMostMaxImages == Len(images) <= props.maxImages

\* a batch has just been committed and filled the list up to maxImages
C1_Witness == BatchCommitted /\ Len(images) = props.maxImages

\* C2: with generateId fresh and the initial ids distinct, the records of every
\* list handed to onChange have pairwise distinct ids.
C2_DistinctIds ==
    \A i, j \in 1 .. Len(images) : i # j => images[i].id # images[j].id

\* a batch has just been committed onto a list that already had a record
C2_Witness == BatchCommitted /\ Len(last.batch.images) >= 1 /\ Len(images) >= 2

\* C3: a non-empty batch with current + incoming > maxImages is rejected whole:
\* no onChange, no file resolved, one aggregate error and nothing else.
C3_OverMaxBatchRejected ==
    (/\ last.op = "handleFiles"
     /\ last.args[1] > 0
     /\ Len(last.images) + last.args[1] > props.maxImages)
    => /\ last.calls = 0
       /\ images = last.images
       /\ batch = IdleBatch
       /\ ~uploading
       /\ last.toasts = <<MaxImagesToast>>

\* a batch was rejected by the ceiling although the list had room for a file
C3_Witness ==
    /\ last.op = "handleFiles"
    /\ last.toasts = <<MaxImagesToast>>
    /\ Len(images) >= 1
    /\ Len(images) < props.maxImages

Count(s, x) == Cardinality({ k \in 1 .. Len(s) : s[k] = x })
CountTitle(s, t) == Cardinality({ k \in 1 .. Len(s) : s[k].title = t })

\* C4: when the resolution of an accepted file fails, onChange is not called for
\* the batch, the list stays as it was, no record of the batch survives, and
\* the batch reports one failure and no success.
C4_FailedBatchAbandoned ==
    last.op = "fileRejected"
    => /\ last.calls = 0
       /\ images = last.images
       /\ batch = IdleBatch
       /\ \A k \in 1 .. Len(last.batch.newImages) :
              last.batch.newImages[k].id \notin IdsOf(images)
       /\ Count(last.batch.toasts \o last.toasts, ProcessFailedToast) = 1
       /\ CountTitle(last.batch.toasts \o last.toasts, "Success") = 0

\* a resolution has just failed after an earlier file of the batch had resolved
C4_Witness == last.op = "fileRejected" /\ Len(last.batch.newImages) >= 1

\* the records a committed batch added: one per accepted file, in the files'
\* selection order
NewRecordsMatch(recs, files) ==
    /\ Len(recs) = Len(SelectSeq(files, AcceptedFile))
    /\ \A k \in 1 .. Len(recs) : recs[k].file = SelectSeq(files, AcceptedFile)[k]

\* C5: a batch whose accepted files all resolve is committed by one onChange
\* call with the existing list followed by one record per accepted file, in
\* selection order.
C5_CommitAppendsToExisting ==
    BatchCommitted
    => /\ Len(images) >= Len(last.images)
       /\ SubSeq(images, 1, Len(last.images)) = last.images
       /\ NewRecordsMatch(SubSeq(images, Len(last.images) + 1, Len(images)),
                          last.batch.files)

\* C5 with the list the call was started with in place of the existing list
C5_CommitAppendsToSnapshot ==
    BatchCommitted
    => /\ Len(images) >= Len(last.batch.images)
       /\ SubSeq(images, 1, Len(last.batch.images)) = last.batch.images
       /\ NewRecordsMatch(SubSeq(images, Len(last.batch.images) + 1, Len(images)),
                          last.batch.files)

\* the report of a validation pass names each rejected file once, in order
ReportMatches(errors, files) ==
    /\ Len(errors) = Len(SelectSeq(files, RejectedFile))
    /\ \A k \in 1 .. Len(errors) :
          /\ errors[k].name = SelectSeq(files, RejectedFile)[k].name
          /\ errors[k].rule \in {"type", "size"}

\* the step just taken was a handleFiles call whose batch passed the ceiling
PassedCeiling ==
    /\ last.op = "handleFiles"
    /\ last.args[1] > 0
    /\ Len(last.images) + last.args[1] <= props.maxImages

\* C6: in a batch that passes the ceiling every file is validated and every
\* rejected file is reported, and the accepted files are still processed and
\* committed: rejections and a success can be reported for the same batch.
C6_ValidationNeverShortCircuits ==
    /\ (PassedCeiling /\ batch.pc = "await")
       => /\ batch.validFiles = SelectSeq(batch.files, AcceptedFile)
          /\ Len(batch.files) = last.args[1]
          /\ uploading
          /\ IF SelectSeq(batch.files, RejectedFile) = <<>>
             THEN last.toasts = <<>>
             ELSE /\ Len(last.toasts) = 1
                  /\ last.toasts[1].title = "Validation Errors"
                  /\ ReportMatches(last.toasts[1].errors, batch.files)
    /\ (PassedCeiling /\ batch.pc # "await")
       => /\ Len(last.toasts) = 1
          /\ last.toasts[1].title = "Validation Errors"
          /\ Len(last.toasts[1].errors) = last.args[1]
    /\ BatchCommitted
       => /\ Len(images) - Len(last.batch.images)
             = Len(SelectSeq(last.batch.files, AcceptedFile))
          /\ last.toasts
             = <<AddedToast(Len(SelectSeq(last.batch.files, AcceptedFile)))>>

\* a batch has just been committed that had reported a rejected file
C6_Witness ==
    /\ BatchCommitted
    /\ Len(last.batch.toasts) = 1
    /\ last.batch.toasts[1].title = "Validation Errors"

\* C7: validateFile returns no error for an allowed type with size <= maxFileSize,
\* one type error for a type that is not allowed (whatever the size), and one
\* size error for an allowed type with size > maxFileSize.
C7_ValidateFile ==
    (probe.fn = "validateFile" /\ probe.pc = "return")
    => LET f == probe.file
           allowed == f.type \in probe.types
       IN  /\ (allowed /\ f.size <= probe.maxSize) => probe.result = NoError
           /\ ~allowed
              => probe.result = [name |-> f.name, rule |-> "type"]
           /\ (allowed /\ f.size > probe.maxSize)
              => probe.result = [name |-> f.name, rule |-> "size"]

\* a file of exactly maxFileSize bytes and an allowed type has been accepted
C7_Witness ==
    /\ probe.fn = "validateFile"
    /\ probe.pc = "return"
    /\ probe.file.type \in probe.types
    /\ probe.file.size = probe.maxSize
    /\ probe.result = NoError

\* the drag that handleDragEnd ended: source and target, as they were
DragFrom == last.args[1]
DragTo == last.args[2]

\* C8: a remove, a promote with index > 0, a drag reorder between different
\* indices, a crop whose url arrives and a batch whose files all resolve each
\* call onChange exactly once, with a whole list; a promote at index 0 and a
\* drag ending on its own index or without a target call it zero times.
C8_OneOnChangePerMutation ==
    /\ last.calls \in {0, 1}
    /\ last.calls = 0 => images = last.images
    /\ last.op = "handleRemoveImage"
       => last.calls = 1 /\ Len(images) = Len(last.images) - 1
    /\ last.op = "handleSetAsCover"
       => IF last.args[1] > 0
          THEN last.calls = 1 /\ Len(images) = Len(last.images)
          ELSE last.calls = 0
    /\ last.op = "handleDragEnd"
       => IF DragFrom = NULL \/ DragTo = NULL \/ DragFrom = DragTo
          THEN last.calls = 0
          ELSE props.enableReorder
               => last.calls = 1 /\ Len(images) >= Len(last.images)
    /\ last.op = "cropUrlResolved" => last.calls = 1 /\ Len(images) >= 1
    /\ last.op = "fileResolved"
       => IF Len(last.batch.newImages) + 1 = Len(last.batch.validFiles)
          THEN /\ last.calls = 1
               /\ Len(images)
                  = Len(last.batch.images) + Len(last.batch.validFiles)
          ELSE last.calls = 0
    /\ last.op \in {"handleFiles", "fileRejected"} => last.calls = 0

\* the url of a crop has just arrived and the crop has been committed
C8_Witness == last.op = "cropUrlResolved" /\ last.calls = 1

\* C9: promote-to-cover at index 0 changes nothing and calls nothing; at i > 0
\* it commits L[i] followed by the other elements of L in their order.
C9_PromoteToCover ==
    last.op = "handleSetAsCover"
    => LET L == last.images
           i == last.args[1]
       IN  IF i = 0
           THEN images = L /\ last.calls = 0
           ELSE /\ last.calls = 1
                /\ Len(images) = Len(L)
                /\ images[1] = L[i + 1]
                /\ \A k \in 2 .. Len(L) :
                      images[k] = L[IF k - 1 <= i THEN k - 1 ELSE k]
                /\ IdsOf(images) = IdsOf(L)

\* the third of three images has just been promoted
C9_Witness ==
    /\ last.op = "handleSetAsCover"
    /\ last.args[1] = 2
    /\ Len(last.images) = 3
    /\ images = <<last.images[3], last.images[1], last.images[2]>>

\* C10: a drag reorder from valid index i to valid index j # i commits L with
\* L[i] removed and reinserted at position j: a permutation of L in which L[i]
\* is at j and the other elements keep their relative order.
C10_ReorderIsRemoveThenInsert ==
    (/\ last.op = "handleDragEnd"
     /\ props.enableReorder
     /\ DragFrom \in Indices(last.images)
     /\ DragTo \in Indices(last.images)
     /\ DragFrom # DragTo)
    => /\ last.calls = 1
       /\ Len(images) = Len(last.images)
       /\ IdsOf(images) = IdsOf(last.images)
       /\ images[DragTo + 1] = last.images[DragFrom + 1]
       /\ Without(images, DragTo + 1) = Without(last.images, DragFrom + 1)

\* the first of three images has just been dragged onto the last
C10_Witness ==
    /\ last.op = "handleDragEnd"
    /\ last.calls = 1
    /\ DragFrom = 0
    /\ DragTo = 2
    /\ Len(last.images) = 3
    /\ images = <<last.images[2], last.images[3], last.images[1]>>

\* C11: removing at a valid index i of L commits L without L[i]: length
\* |L| - 1, the other elements in their order; for i = 0 the former L[1]
\* becomes the first element.
C11_RemoveAtIndex ==
    last.op = "handleRemoveImage"
    => LET L == last.images
           i == last.args[1]
       IN  /\ i \in Indices(L)
           /\ last.calls = 1
           /\ Len(images) = Len(L) - 1
           /\ images = Without(L, i + 1)
           /\ \A k \in 1 .. Len(images) :
                 images[k] = L[IF k <= i THEN k ELSE k + 1]
           /\ (i = 0 /\ Len(L) >= 2) => images[1] = L[2]

\* the cover of a list of three has just been removed
C11_Witness ==
    /\ last.op = "handleRemoveImage"
    /\ last.args[1] = 0
    /\ Len(last.images) = 3
    /\ images = <<last.images[2], last.images[3]>>

\* the crop whose url has just arrived: the record's id, the index and the
\* list handleSave was called with
CroppedId == last.args[1]
CroppedIndex == last.args[2]
CroppedSnapshot == last.args[3]

\* list `after` is list `before` with only the url of the record `id` replaced
OnlyUrlReplaced(before, after, id) ==
    /\ Len(after) = Len(before)
    /\ \E k \in 1 .. Len(before) : before[k].id = id
    /\ \A k \in 1 .. Len(before) :
          /\ after[k].id = before[k].id
          /\ after[k].file = before[k].file
          /\ before[k].id # id => after[k] = before[k]
          /\ before[k].id = id => after[k].url # before[k].url

\* C12: a successful crop of a record replaces only that record's url in the
\* list: id, file, position, list length and every other record are unchanged.
C12_CropReplacesOnlyUrl ==
    last.op = "cropUrlResolved"
    => OnlyUrlReplaced(last.images, images, CroppedId)

\* C12 with the list handleSave was called with in place of the list
C12_CropReplacesOnlyUrlOfSnapshot ==
    last.op = "cropUrlResolved"
    => OnlyUrlReplaced(CroppedSnapshot, images, CroppedId)

\* C13: for every list L and valid indices i # j, reordering from i to j and
\* then reordering the result from j to i restores L.
C13_ReorderRoundTrip ==
    (probe.fn = "reorder" /\ probe.pc = "back") => probe.back = probe.list

\* the first element has been moved to the end and back again
C13_Witness ==
    /\ probe.fn = "reorder"
    /\ probe.pc = "back"
    /\ probe.from = 0
    /\ probe.to = Len(probe.list) - 1
    /\ Len(probe.list) >= 3
    /\ probe.there # probe.list
    /\ probe.back = probe.list

\* the steps of the crop flow other than the arrival of a crop's url
CropFlowBeforeUrl ==
    {"openDialog", "closeDialog", "onCropChange", "onZoomChange",
     "onCropCompleteCallback", "handleSave", "cropImageDone",
     "cropImageFailed", "cropUrlFailed"}

\* C14: opening the crop dialog, panning, zooming, closing or cancelling it
\* and a save whose crop fails never call onChange and leave the list as it
\* was: the crop flow changes a url only when a crop has fully succeeded.
C14_CropFlowLeavesListAlone ==
    /\ last.op \in CropFlowBeforeUrl
       => /\ last.calls = 0
          /\ images = last.images
    /\ (probe = DialogProbe /\ images # last.images)
       => last.op = "cropUrlResolved"

\* a save has just failed in the crop engine after the user had panned and
\* zoomed, and the list is the initial one
C14_Witness ==
    /\ last.op = "cropImageFailed"
    /\ last.args[3]
    /\ dialogs[last.args[1]].crop # Origin
    /\ dialogs[last.args[1]].zoom # 1
    /\ images = InitialList(Len(images))

\* C15: a save that fails in the crop engine reports one failure and no
\* success, leaves the dialog open and sets saving back to false.
C15_CropFailureKeepsDialogOpen ==
    last.op = "cropImageFailed"
    => /\ last.toasts = <<CropErrorToast>>
       /\ CountTitle(last.toasts, "Success") = 0
       /\ last.args[3]
          => /\ ~dialogs[last.args[1]].saving
             /\ dialogs[last.args[1]].open = last.args[2]

\* a save has just failed and its dialog is open and ready for another save
C15_Witness ==
    /\ last.op = "cropImageFailed"
    /\ last.args[3]
    /\ last.args[2]
    /\ dialogs[last.args[1]].open
    /\ ~dialogs[last.args[1]].saving
    /\ dialogs[last.args[1]].croppedAreaPixels # NoArea

\* C16: at most one batch intake or crop operation is in flight: no batch
\* intake starts while another batch is Processing, and no crop save of a
\* record starts while an earlier crop update of that record has neither been
\* committed nor failed.
C16_AtMostOneInFlight ==
    /\ last.op = "handleFiles" => last.batch.pc = "idle"
    /\ uploading <=> batch.pc = "await"
    /\ \A i, j \in 1 .. Len(cropOps) :
          i # j => cropOps[i].id # cropOps[j].id

\* C17: every index a remove, a promote, a drag reorder or a crop update is
\* applied with lies within the list it is applied to, also when a commit
\* replaced the list between drag start and drag end; so every list handed to
\* onChange holds only well-formed records.
C17_IndicesWithinBounds ==
    /\ last.op \in {"handleRemoveImage", "handleSetAsCover"}
       => last.args[1] \in Indices(last.images)
    /\ (last.op = "handleDragEnd" /\ last.calls = 1)
       => /\ DragFrom \in Indices(last.images)
          /\ DragTo \in Indices(last.images)
    /\ last.op = "cropUrlResolved"
       => CroppedIndex \in Indices(CroppedSnapshot)
    /\ \A k \in 1 .. Len(images) : images[k] # Undefined

\* C18: uploading is true exactly while a handleFiles call awaits the
\* resolution of an accepted file, and every batch that enters Processing
\* eventually leaves it with uploading = false, committed or abandoned.
C18_UploadReturnsToIdle ==
    /\ [](uploading <=> batch.pc = "await")
    /\ uploading ~> ~uploading

\* a batch of two accepted files has just left Processing
C18_Witness ==
    /\ last.op \in {"fileResolved", "fileRejected"}
    /\ last.batch.pc = "await"
    /\ Len(last.batch.validFiles) = 2
    /\ batch = IdleBatch
    /\ ~uploading

\* C19: the crop request state of a dialog session is discarded when the
\* dialog closes, by a save or by cancel / dismiss: on the next open the pan
\* is (0,0), the zoom is 1 and no pixel rectangle of the earlier session is
\* there for a save to use.
C19_CropStateDiscardedOnClose ==
    last.op = "openDialog"
    => \A id \in DOMAIN dialogs :
          dialogs[id].open
          => /\ dialogs[id].crop = Origin
             /\ dialogs[id].zoom = 1
             /\ dialogs[id].croppedAreaPixels = NoArea

\* C20: the output surface of the crop engine has the dimensions of the pixel
\* rectangle it is given, and the source region that starts at (x, y) of the
\* rectangle is copied to the origin; the identity rectangle {0, 0, W, H} on a
\* W x H source gives a W x H output.
C20_OutputHasRectDimensions ==
    (probe.fn = "createCroppedImage" /\ probe.pc = "return" /\ probe.result.ok)
    => LET canvas == probe.result.canvas
           rect == probe.pixelCrop
       IN  /\ canvas.width = rect.width
           /\ canvas.height = rect.height
           /\ <<canvas.sx, canvas.sy>> = <<rect.x, rect.y>>
           /\ <<canvas.sw, canvas.sh>> = <<rect.width, rect.height>>
           /\ <<canvas.dx, canvas.dy>> = <<0, 0>>
           /\ <<canvas.dw, canvas.dh>> = <<rect.width, rect.height>>
           /\ (rect = [x |-> 0, y |-> 0, width |-> probe.image.width,
                       height |-> probe.image.height])
              => /\ canvas.width = probe.image.width
                 /\ canvas.height = probe.image.height

\* a rectangle smaller than the source and off its origin has been cropped
C20_Witness ==
    /\ probe.fn = "createCroppedImage"
    /\ probe.pc = "return"
    /\ probe.result.ok
    /\ probe.pixelCrop = [x |-> 100, y |-> 0, width |-> 750, height |-> 562]
    /\ probe.image.width = 1024
    /\ probe.result.canvas.width = 750
    /\ probe.result.canvas.height = 562

\* what a URL is, read as a URL: an embedded data: representation, a relative
\* path (same origin by definition), or an absolute URL whose origin is every
\* piece before its path
IsData(url) == url[1] = "data:"
IsRelative(url) == url[1] \in {"/uploads", "/images", "/a.png"}
OriginOf(url) ==
    SelectSeq(url, LAMBDA piece : piece \in Origins \cup {".evil.example"})
IsSameOrigin(url, locationOrigin) ==
    IsRelative(url) \/ (~IsData(url) /\ OriginOf(url) = <<locationOrigin>>)
IsUnderUploads(url) ==
    /\ url[1] = "/uploads"
    /\ Len(url) >= 2 => url[2] # "-old"

\* C21: anonymous cross-origin access is requested if and only if the source
\* URL is none of: a same-origin path (a relative path such as /images/a.png
\* included), a data: representation, a path under /uploads.
C21_CrossOriginPolicy ==
    (probe.fn = "createImage" /\ probe.pc = "return")
    => (probe.result = "anonymous"
        <=> ~(\/ IsSameOrigin(probe.url, probe.locationOrigin)
              \/ IsData(probe.url)
              \/ IsUnderUploads(probe.url)))

\* C22: with enableReorder = false no drag-start, drag-over or drag-end event
\* calls onChange or changes the list, and draggedIndex and dragOverIndex stay
\* null.
C22_ReorderDisabled ==
    ~props.enableReorder
    => /\ draggedIndex = NULL
       /\ dragOverIndex = NULL
       /\ last.op \in {"handleDragStart", "handleDragOver", "handleDragEnd"}
          => /\ last.calls = 0
             /\ images = last.images

\* a drag has just ended on a list of two or more with reordering disabled
C22_Witness ==
    /\ ~props.enableReorder
    /\ last.op = "handleDragEnd"
    /\ Len(images) >= 2
    /\ images = last.images

\* the records a committed batch appended to the list it was started with
CommittedRecords ==
    SubSeq(images, Len(last.batch.images) + 1, Len(images))

\* C23: the record built for an accepted file f of a committed batch has
\* file = f and, as url, the string onUpload(f) returned when onUpload is
\* supplied (no data URL is read then) and the data URL read from f otherwise.
C23_RecordUrlFromResolution ==
    BatchCommitted
    => LET accepted == SelectSeq(last.batch.files, AcceptedFile)
       IN  /\ Len(CommittedRecords) = Len(accepted)
           /\ \A k \in 1 .. Len(CommittedRecords) :
                 /\ CommittedRecords[k].file = accepted[k]
                 /\ props.onUpload
                    => CommittedRecords[k].url = onUpload(accepted[k])
                 /\ ~props.onUpload
                    => CommittedRecords[k].url = fileToDataUrl(accepted[k])
                 /\ props.onUpload
                    => CommittedRecords[k].url # fileToDataUrl(accepted[k])

\* a batch of two files has just been committed with the urls onUpload returned
C23_Witness ==
    /\ BatchCommitted
    /\ props.onUpload
    /\ Len(CommittedRecords) = 2
    /\ CommittedRecords[1].url = onUpload(CommittedRecords[1].file)
    /\ CommittedRecords[2].url = onUpload(CommittedRecords[2].file)

\* C24: no lost update: what the caller committed while a batch was in
\* Processing or a crop's url was pending is still in the list after that
\* batch or crop commits; the later commit resurrects no removed record,
\* undoes no reorder, drops no record added meanwhile and reverts no url.
C24_NoLostUpdate ==
    /\ BatchCommitted
       => /\ Len(images) >= Len(last.images)
          /\ \A k \in 1 .. Len(last.images) : images[k] = last.images[k]
          /\ \A k \in Len(last.images) + 1 .. Len(images) :
                images[k].id \notin IdsOf(last.images)
    /\ last.op = "cropUrlResolved"
       => /\ Len(images) = Len(last.images)
          /\ \A k \in 1 .. Len(images) :
                /\ images[k].id = last.images[k].id
                /\ images[k].id # CroppedId => images[k] = last.images[k]

\* C25: a crop is reported as successful only if the record's url has been
\* replaced in the list; when the caller's onCropComplete or the read of the
\* blob fails, no success is reported and the failure is reported.
C25_CropSuccessOnlyIfReplaced ==
    /\ CountTitle(last.toasts, "Success") > 0 /\ last.op = "cropImageDone"
       => images # last.images
    /\ last.op = "cropUrlFailed"
       => /\ Len(last.toasts) = 1
          /\ last.toasts[1].variant = "destructive"

\* the first n elements of s
Prefix(s, n) == SubSeq(s, 1, n)

\* the files of the awaiting call b whose resolution has started are the
\* accepted files up to the one after the last resolved, each once, in order
StartedInTurn(b) ==
    /\ Len(b.started) = Len(b.newImages) + 1
    /\ Len(b.started) <= Len(b.validFiles)
    /\ b.started = Prefix(b.validFiles, Len(b.started))
    /\ \A i \in 1 .. Len(b.newImages) : b.newImages[i].file = b.started[i]
    /\ \A i \in 1 .. Len(b.started) :
          /\ AcceptedFile(b.started[i])
          /\ \A j \in 1 .. Len(b.started) : b.started[i] = b.started[j] => i = j

\* C26: within one batch the accepted files are resolved one after the other,
\* each at most once and only after the previous one has resolved; rejected
\* files are never resolved; after a failed resolution no later file of the
\* batch is resolved.
C26_SequentialResolution ==
    /\ batch.pc = "await" => StartedInTurn(batch)
    /\ last.op \in {"fileResolved", "fileRejected"} => StartedInTurn(last.batch)
    /\ BatchCommitted => last.batch.started = last.batch.validFiles
    /\ last.op = "fileRejected" => batch = IdleBatch /\ ~uploading

\* the first accepted file of a batch has resolved and the second is being
\* resolved
C26_Witness ==
    /\ last.op = "fileResolved"
    /\ batch.pc = "await"
    /\ Len(batch.newImages) = 1
    /\ Len(batch.started) = 2

\* the id of the cover, the record at position 0 of a non-empty list
CoverId(list) == list[1].id

\* a batch was appended to a non-empty list and the cover is the same record
BatchKeepsCover ==
    BatchCommitted /\ Len(last.images) > 0
    => Len(images) > 0 /\ CoverId(images) = CoverId(last.images)

\* a record was removed at an index > 0 and the cover is the same record
RemoveKeepsCover ==
    last.op = "handleRemoveImage" /\ last.args[1] > 0
    => Len(images) > 0 /\ CoverId(images) = CoverId(last.images)

\* a record was dragged between two indices > 0 and the cover is the same
ReorderKeepsCover ==
    last.op = "handleDragEnd" /\ last.calls = 1 /\ DragFrom > 0 /\ DragTo > 0
    => Len(images) > 0 /\ CoverId(images) = CoverId(last.images)

\* a crop update was committed and the cover is the same record
CropKeepsCover ==
    last.op = "cropUrlResolved" /\ Len(last.images) > 0
    => Len(images) > 0 /\ CoverId(images) = CoverId(last.images)

\* after promote-to-cover at i > 0 the cover is the former L[i]
PromoteSetsCover ==
    last.op = "handleSetAsCover" /\ last.args[1] > 0
    => Len(images) > 0 /\ images[1] = last.images[last.args[1] + 1]

\* C27: coverhood is positional and changes only through position 0: a batch
\* appended to a non-empty list, a remove at an index > 0, a reorder between
\* two indices > 0 and a crop update leave the id of the record at position 0
\* unchanged; a promote at i > 0 puts the former L[i] at position 0.
C27_CoverOnlyThroughPositionZero ==
    /\ BatchKeepsCover
    /\ RemoveKeepsCover
    /\ ReorderKeepsCover
    /\ CropKeepsCover
    /\ PromoteSetsCover

\* the dialog Save was pressed in, its croppedAreaPixels and the number of
\* crops attempted, all as they were before the press
SavedId == last.args[1]
SavedArea == last.args[2]
SavedCrops == last.args[3]

\* C28: Save pressed while no pixel rectangle has been computed raises an
\* error notification and does nothing else: no crop is attempted, neither
\* onCropComplete nor onChange is called, saving stays false and the dialog
\* stays open.
C28_SaveWithoutArea ==
    last.op = "handleSave" /\ SavedArea = NoArea
    => /\ last.toasts = <<NoAreaToast>>
       /\ NoAreaToast.variant = "destructive"
       /\ crops = SavedCrops
       /\ \A k \in 1 .. Len(cropOps) :
             cropOps[k].id = SavedId => cropOps[k].stage # "cropping"
       /\ last.calls = 0
       /\ images = last.images
       /\ SavedId \in DOMAIN dialogs
       /\ dialogs[SavedId].open
       /\ ~dialogs[SavedId].saving

\* Save has been pressed in an open dialog with no pixel rectangle
C28_Witness ==
    /\ last.op = "handleSave"
    /\ SavedArea = NoArea
    /\ dialogs[SavedId].open
    /\ last.toasts = <<NoAreaToast>>
====
